---- MODULE Spec2Model ----
(***************************************************************************)
(* A model of the Lambda Rust runtime's executor (lambda/src/lib.rs):      *)
(* run() loads the configuration and starts Executor::run, which loops     *)
(* fetch -> parse -> refresh config -> deserialize -> handler -> report.   *)
(* Every suspension point of the async function is a value of pc; the      *)
(* event source (transport), the handler and the process environment are   *)
(* the nondeterministic parties.  trace is the history of observable       *)
(* events (requests handed to the transport, its replies, handler calls    *)
(* and returns).                                                           *)
(***************************************************************************)
EXTENDS Naturals, Sequences, FiniteSets, TLC

VARIABLES pc, env, handler, client, ctx, body, event, trace, outcome, overdue

vars == <<pc, env, handler, client, ctx, body, event, trace, outcome, overdue>>

(* Bound: number of fetches the model follows. *)
MaxInvocations == 2

(***************************************************************************)
(* Results                                                                 *)
(***************************************************************************)
Ok(v) == [tag |-> "Ok", val |-> v]
Fail(kind) == [tag |-> "Err", kind |-> kind]
IsOk(r) == r.tag = "Ok"

(***************************************************************************)
(* Environment and Config::from_env                                        *)
(***************************************************************************)
NotPresent == <<"<NotPresent>">>

EnvVars == {"AWS_LAMBDA_RUNTIME_API", "AWS_LAMBDA_FUNCTION_NAME",
            "AWS_LAMBDA_FUNCTION_MEMORY_SIZE", "AWS_LAMBDA_FUNCTION_VERSION",
            "AWS_LAMBDA_LOG_STREAM_NAME", "AWS_LAMBDA_LOG_GROUP_NAME"}

Digit == {"0", "1", "2", "3", "4", "5", "6", "7", "8", "9"}

DigitVal(c) ==
  CASE c = "0" -> 0 [] c = "1" -> 1 [] c = "2" -> 2 [] c = "3" -> 3
    [] c = "4" -> 4 [] c = "5" -> 5 [] c = "6" -> 6 [] c = "7" -> 7
    [] c = "8" -> 8 [] c = "9" -> 9

I32Max == 2147483647

(* str::parse::<i32> on an unsigned decimal text: empty text, a non-digit *)
(* or a value above i32::MAX is a ParseIntError.                           *)
RECURSIVE ParseDecimal(_, _)
ParseDecimal(s, acc) ==
  IF s = <<>> THEN Ok(acc)
  ELSE IF Head(s) \notin Digit THEN Fail("config")
  ELSE LET d == DigitVal(Head(s))
       IN IF acc > (I32Max - d) \div 10 THEN Fail("config")
          ELSE ParseDecimal(Tail(s), acc * 10 + d)

ParseI32(s) ==
  IF s = <<>> THEN Fail("config")
  ELSE IF Head(s) = "+" THEN
         (IF Tail(s) = <<>> THEN Fail("config") ELSE ParseDecimal(Tail(s), 0))
  ELSE ParseDecimal(s, 0)

EnvVar(e, name) == IF e[name] = NotPresent THEN Fail("config") ELSE Ok(e[name])

(* Config::from_env: the fields are read in declaration order and the     *)
(* first failing read is returned.                                         *)
ConfigFromEnv(e) ==
  LET endpoint == EnvVar(e, "AWS_LAMBDA_RUNTIME_API")
      function_name == EnvVar(e, "AWS_LAMBDA_FUNCTION_NAME")
      memory_var == EnvVar(e, "AWS_LAMBDA_FUNCTION_MEMORY_SIZE")
      version == EnvVar(e, "AWS_LAMBDA_FUNCTION_VERSION")
      log_stream == EnvVar(e, "AWS_LAMBDA_LOG_STREAM_NAME")
      log_group == EnvVar(e, "AWS_LAMBDA_LOG_GROUP_NAME")
  IN IF ~IsOk(endpoint) THEN endpoint
     ELSE IF ~IsOk(function_name) THEN function_name
     ELSE IF ~IsOk(memory_var) THEN memory_var
     ELSE IF ~IsOk(ParseI32(memory_var.val)) THEN ParseI32(memory_var.val)
     ELSE IF ~IsOk(version) THEN version
     ELSE IF ~IsOk(log_stream) THEN log_stream
     ELSE IF ~IsOk(log_group) THEN log_group
     ELSE Ok([endpoint |-> endpoint.val,
              function_name |-> function_name.val,
              memory |-> ParseI32(memory_var.val).val,
              version |-> version.val,
              log_stream |-> log_stream.val,
              log_group |-> log_group.val])

(* Config::default(), the value of env_config that try_from leaves.       *)
DefaultConfig ==
  [endpoint |-> <<>>, function_name |-> <<>>, memory |-> 0,
   version |-> <<>>, log_stream |-> <<>>, log_group |-> <<>>]

(***************************************************************************)
(* JSON: serde_json::from_reader and serde_json::to_vec on the values the  *)
(* model uses.  A text is a sequence of characters; a value is a record    *)
(* tagged by its JSON type.                                                *)
(***************************************************************************)
Whitespace == {" "}
Letter == {"a", "b"}
Quote == "\""

JNull == [t |-> "null"]
JBool(b) == [t |-> "bool", b |-> b]
JNum(n) == [t |-> "num", n |-> n]
JStr(s) == [t |-> "str", s |-> s]
(* A map whose keys are not strings: a value of a Serialize type that      *)
(* serde_json refuses to encode ("key must be a string").                  *)
JBadMap == [t |-> "map_with_non_string_key"]

Parsed(v, rest) == [tag |-> "Ok", val |-> v, rest |-> rest]

RECURSIVE SkipWs(_)
SkipWs(s) ==
  IF s # <<>> /\ Head(s) \in Whitespace THEN SkipWs(Tail(s)) ELSE s

StartsWith(s, lit) == Len(s) >= Len(lit) /\ SubSeq(s, 1, Len(lit)) = lit

Drop(s, n) == SubSeq(s, n + 1, Len(s))

RECURSIVE ParseDigits(_, _)
ParseDigits(s, acc) ==
  IF s # <<>> /\ Head(s) \in Digit
  THEN ParseDigits(Tail(s), acc * 10 + DigitVal(Head(s)))
  ELSE Parsed(JNum(acc), s)

(* A number: a single 0, or a non-zero digit followed by digits; a digit  *)
(* after a leading 0 is an invalid number.                                 *)
ParseNumber(s) ==
  IF Head(s) = "0"
  THEN IF Len(s) > 1 /\ s[2] \in Digit THEN Fail("json")
       ELSE Parsed(JNum(0), Tail(s))
  ELSE ParseDigits(s, 0)

(* A string without escapes: the characters up to the closing quote.      *)
RECURSIVE ParseStringBody(_, _)
ParseStringBody(s, acc) ==
  IF s = <<>> THEN Fail("json")
  ELSE IF Head(s) = Quote THEN Parsed(JStr(acc), Tail(s))
  ELSE IF Head(s) \in Letter THEN ParseStringBody(Tail(s), Append(acc, Head(s)))
  ELSE Fail("json")

LitNull == <<"n", "u", "l", "l">>
LitTrue == <<"t", "r", "u", "e">>
LitFalse == <<"f", "a", "l", "s", "e">>

ParseValue(s) ==
  IF s = <<>> THEN Fail("json")
  ELSE IF Head(s) = "n" THEN
         (IF StartsWith(s, LitNull) THEN Parsed(JNull, Drop(s, 4)) ELSE Fail("json"))
  ELSE IF Head(s) = "t" THEN
         (IF StartsWith(s, LitTrue) THEN Parsed(JBool(TRUE), Drop(s, 4)) ELSE Fail("json"))
  ELSE IF Head(s) = "f" THEN
         (IF StartsWith(s, LitFalse) THEN Parsed(JBool(FALSE), Drop(s, 5)) ELSE Fail("json"))
  ELSE IF Head(s) = Quote THEN ParseStringBody(Tail(s), <<>>)
  ELSE IF Head(s) \in Digit THEN ParseNumber(s)
  ELSE Fail("json")

(* The input types A of the modelled handlers and the JSON values each    *)
(* Deserialize implementation accepts.                                     *)
Accepts(A, v) ==
  CASE A = "Value" -> TRUE
    [] A = "u64" -> v.t = "num"
    [] A = "String" -> v.t = "str"
    [] A = "bool" -> v.t = "bool"

(* serde_json::from_reader::<A>: leading whitespace is skipped, one value *)
(* is parsed into A, and anything but whitespace after it is an error.     *)
FromReader(text, A) ==
  LET r == ParseValue(SkipWs(text))
  IN IF ~IsOk(r) THEN Fail("json")
     ELSE IF ~Accepts(A, r.val) THEN Fail("json")
     ELSE IF SkipWs(r.rest) # <<>> THEN Fail("json")
     ELSE Ok(r.val)

RECURSIVE EncodeNat(_)
EncodeNat(n) ==
  LET d == CHOOSE c \in Digit : DigitVal(c) = n % 10
  IN IF n < 10 THEN <<d>> ELSE Append(EncodeNat(n \div 10), d)

(* serde_json::to_vec: the compact encoding, or an error for a value that *)
(* has no JSON form.                                                       *)
ToVec(v) ==
  CASE v.t = "null" -> Ok(LitNull)
    [] v.t = "bool" -> Ok(IF v.b THEN LitTrue ELSE LitFalse)
    [] v.t = "num" -> Ok(EncodeNat(v.n))
    [] v.t = "str" -> Ok(<<Quote>> \o v.s \o <<Quote>>)
    [] OTHER -> Fail("json")

(***************************************************************************)
(* Protocol codec: the three request builders, the fetch-response parser   *)
(* and the client constructor.                                             *)
(***************************************************************************)
RequestIdHeader == "lambda-runtime-aws-request-id"
DeadlineHeader == "lambda-runtime-deadline-ms"

InvocationPath == <<"/2018-06-01/runtime/invocation/">>

(* A URI admits no space.                                                  *)
UriValid(s) == \A i \in 1..Len(s) : s[i] # " "

(* Client::with: the endpoint has to be a URI.                             *)
ClientWith(endpoint) ==
  IF UriValid(endpoint) /\ endpoint # <<>>
  THEN Ok([base |-> endpoint]) ELSE Fail("client")

NoClient == [base |-> <<>>]

MkRequest(kind, method, path, payload) ==
  IF UriValid(path)
  THEN Ok([kind |-> kind, method |-> method, path |-> path, body |-> payload])
  ELSE Fail("request")

NextEventIntoReq == MkRequest("next", "GET", InvocationPath \o <<"next">>, <<>>)

EventCompletionIntoReq(r) ==
  MkRequest("response", "POST",
            InvocationPath \o r.request_id \o <<"/response">>, r.body)

(* The JSON object {"errorMessage": .., "errorType": ..} as its tokens.   *)
DiagnosticJson(d) ==
  <<"{", "errorMessage", ":", d.error_message, ",",
    "errorType", ":", d.error_type, "}">>

EventErrorIntoReq(r) ==
  MkRequest("error", "POST",
            InvocationPath \o r.request_id \o <<"/error">>,
            DiagnosticJson(r.diagnostic))

(* LambdaCtx::try_from(&headers): the request id is required, the deadline *)
(* defaults when its header is absent; env_config is left at its default.  *)
LambdaCtxTryFrom(headers) ==
  IF RequestIdHeader \notin DOMAIN headers THEN Fail("parse")
  ELSE Ok([request_id |-> headers[RequestIdHeader],
           deadline |-> IF DeadlineHeader \in DOMAIN headers
                        THEN headers[DeadlineHeader] ELSE <<>>,
           env_config |-> DefaultConfig])

NoCtx == [request_id |-> <<>>, deadline |-> <<>>, env_config |-> DefaultConfig]

(***************************************************************************)
(* Handlers                                                                *)
(***************************************************************************)
HOk(v) == [tag |-> "Ok", val |-> v]
HErr(e) == [tag |-> "Err", err |-> e]

(* Handler error values: a String and a unit struct deriving Debug.        *)
BoomString == [ty |-> "String", v |-> "boom"]
MyError == [ty |-> "MyError", v |-> "MyError"]

(* format!("{:?}", err): a String is rendered quoted, a unit struct as    *)
(* its name.                                                               *)
DebugFmt(e) == IF e.ty = "String" THEN "\"" \o e.v \o "\"" ELSE e.v

(* type_name_of_val(err): std::any::type_name of the error's type.         *)
TypeNameOfVal(e) ==
  IF e.ty = "String" THEN "alloc::string::String" ELSE "handler::MyError"

(* A Diagnostic whose message is the Display rendering of the error.       *)
MkDiagnosticDisplay(e) ==
  [error_message |-> e.v, error_type |-> TypeNameOfVal(e)]

MkDiagnostic(e) ==
  [error_message |-> DebugFmt(e), error_type |-> TypeNameOfVal(e)]

(* The handlers the model runs: echo handlers over two input types, one    *)
(* that always fails, and one that returns anything its types allow.       *)
Handlers ==
  {[kind |-> "echo", A |-> "Value"], [kind |-> "echo", A |-> "u64"],
   [kind |-> "fail", A |-> "Value"], [kind |-> "free", A |-> "bool"]}

(* The function f a HandlerFn holds: the results f(x) can resolve to.      *)
WrappedFn(h, x) ==
  CASE h.kind = "echo" -> {HOk(x)}
    [] h.kind = "fail" -> {HErr(BoomString)}
    [] h.kind = "free" -> {HOk(JNum(1)), HOk(JBadMap), HErr(BoomString), HErr(MyError)}

(* A wrapper that calls the function with a default input.                *)
HandlerFnCallDefaultInput(h, req) == WrappedFn(h, JNull)

(* HandlerFn::call: (self.f)(req).                                         *)
HandlerFnCall(h, req) == WrappedFn(h, req)

NoEvent == [t |-> "none"]

(***************************************************************************)
(* Inputs: what the environment, the event source and the transport can    *)
(* present to the runtime.                                                 *)
(***************************************************************************)
GoodEnv ==
  [n \in EnvVars |->
     CASE n = "AWS_LAMBDA_RUNTIME_API" -> <<"h", ":", "9">>
       [] n = "AWS_LAMBDA_FUNCTION_NAME" -> <<"f">>
       [] n = "AWS_LAMBDA_FUNCTION_MEMORY_SIZE" -> <<"1", "2", "8">>
       [] n = "AWS_LAMBDA_FUNCTION_VERSION" -> <<"1">>
       [] n = "AWS_LAMBDA_LOG_STREAM_NAME" -> <<"s">>
       [] n = "AWS_LAMBDA_LOG_GROUP_NAME" -> <<"g">>]

(* The environments a process can be started in.                           *)
InitEnvs ==
  {GoodEnv,
   [GoodEnv EXCEPT !["AWS_LAMBDA_RUNTIME_API"] = <<"h", " ", "9">>],
   [GoodEnv EXCEPT !["AWS_LAMBDA_FUNCTION_MEMORY_SIZE"] = <<"a", "b", "c">>],
   [GoodEnv EXCEPT !["AWS_LAMBDA_LOG_GROUP_NAME"] = NotPresent]}

(* env::set_var / env::remove_var calls made while the runtime runs.       *)
EnvUpdates ==
  {<<"AWS_LAMBDA_FUNCTION_MEMORY_SIZE", <<"2", "5", "6">> >>,
   <<"AWS_LAMBDA_FUNCTION_MEMORY_SIZE", <<"9", "9", "9", "9", "9", "9", "9", "9", "9", "9">> >>,
   <<"AWS_LAMBDA_FUNCTION_VERSION", NotPresent>>}

ReqIds == {<<"i", "1">>, <<"i", "2">>, <<"i", " ">>}

HeaderMaps ==
  {(RequestIdHeader :> id) @@ (DeadlineHeader :> <<"9">>) : id \in ReqIds}
    \cup {(RequestIdHeader :> <<"i", "1">>), (DeadlineHeader :> <<"9">>)}

Payloads ==
  {<<"t", "r", "u", "e">>, <<"1", "0">>, <<Quote, "a", Quote>>,
   <<" ", "7", " ">>, <<"0", "7">>}

Response(headers, payload) == Ok([headers |-> headers, payload |-> payload])

(* What client.call can resolve to for a fetch and for a report.           *)
FetchReplies ==
  {Response(h, p) : h \in HeaderMaps, p \in Payloads} \cup {Fail("transport")}

ReportReplies == {Response(<<>>, <<>>), Fail("transport")}

(***************************************************************************)
(* The trace of observable events                                          *)
(***************************************************************************)
Send(req) == [ev |-> "send", req |-> req]
Reply(r) == [ev |-> "reply", res |-> r]
BodyRead(r) == [ev |-> "body", res |-> r]
Call(arg) == [ev |-> "call", arg |-> arg]
Return(r) == [ev |-> "return", res |-> r]

Running == [tag |-> "running"]
Panic(msg) == [tag |-> "panic", msg |-> msg]

NumFetches ==
  Cardinality({i \in 1..Len(trace) :
                 trace[i].ev = "send" /\ trace[i].req.kind = "next"})

(***************************************************************************)
(* run (lib.rs 149-164) and Executor::run (lib.rs 175-210)                 *)
(***************************************************************************)
Init ==
  /\ pc = "start"
  /\ env \in InitEnvs
  /\ handler \in Handlers
  /\ client = NoClient
  /\ ctx = NoCtx
  /\ body = <<>>
  /\ event = NoEvent
  /\ trace = <<>>
  /\ outcome = Running
  /\ overdue = FALSE

(* A loop that starts over after a transport failure.                     *)
PropagateRetryingTransport(err) ==
  IF err.kind = "transport"
  THEN [pc |-> "loop", outcome |-> Running]
  ELSE [pc |-> "done", outcome |-> err]

(* A loop that drops an invocation whose JSON cannot be processed.        *)
PropagateSkippingJson(err) ==
  IF err.kind = "json"
  THEN [pc |-> "loop", outcome |-> Running]
  ELSE [pc |-> "done", outcome |-> err]

(* A loop that is left with Ok(()) when the body cannot be read.           *)
PropagateBreakingOnBody(err) ==
  IF err.kind = "body"
  THEN [pc |-> "done", outcome |-> Ok(<<>>)]
  ELSE [pc |-> "done", outcome |-> err]

(* The ? operator: the error leaves Executor::run and run.                 *)
Propagate(err) == [pc |-> "done", outcome |-> err]

Abort(err) ==
  /\ pc' = Propagate(err).pc
  /\ outcome' = Propagate(err).outcome

(* run: load the configuration, create the client, enter the loop.         *)
Startup ==
  /\ pc = "start"
  /\ LET config == ConfigFromEnv(env)
     IN IF ~IsOk(config)
        THEN /\ pc' = "done"
             /\ outcome' = Panic("Could not load config")
             /\ UNCHANGED client
        ELSE LET c == ClientWith(config.val.endpoint)
             IN IF ~IsOk(c)
                THEN /\ pc' = "done"
                     /\ outcome' = Panic("Could not create client")
                     /\ UNCHANGED client
                ELSE /\ pc' = "loop"
                     /\ client' = c.val
                     /\ UNCHANGED outcome
  /\ UNCHANGED <<env, handler, ctx, body, event, trace, overdue>>

(* A loop that polls again without awaiting the handler's future.         *)
CanFetchWhileHandling == pc \in {"loop", "handler"}

(* The loop may start an iteration.                                        *)
CanFetch == pc = "loop"

(* Build the next-invocation request and hand it to the transport.         *)
SendFetch ==
  /\ CanFetch
  /\ NumFetches < MaxInvocations
  /\ LET req == NextEventIntoReq
     IN IF ~IsOk(req)
        THEN Abort(req) /\ UNCHANGED trace
        ELSE /\ trace' = Append(trace, Send(req.val))
             /\ pc' = "fetch"
             /\ UNCHANGED outcome
  /\ UNCHANGED <<env, handler, client, ctx, body, event, overdue>>

(* A context that falls back to the default one when parsing fails.       *)
NextCtxOrDefault(headers, e) ==
  LET parsed == LambdaCtxTryFrom(headers)
      config == ConfigFromEnv(e)
  IN IF ~IsOk(config) THEN config
     ELSE IF ~IsOk(parsed) THEN Ok([NoCtx EXCEPT !.env_config = config.val])
     ELSE Ok([parsed.val EXCEPT !.env_config = config.val])

(* A context that carries the configuration the process was started with  *)
(* (the loop is only entered from GoodEnv).                                *)
NextCtxStartupConfig(headers, e) ==
  LET parsed == LambdaCtxTryFrom(headers)
      config == ConfigFromEnv(GoodEnv)
  IN IF ~IsOk(parsed) THEN parsed
     ELSE IF ~IsOk(config) THEN config
     ELSE Ok([parsed.val EXCEPT !.env_config = config.val])

(* The context of the iteration: parsed from the response headers, with    *)
(* the configuration re-read from the environment.                         *)
NextCtx(headers, e) ==
  LET parsed == LambdaCtxTryFrom(headers)
      config == ConfigFromEnv(e)
  IN IF ~IsOk(parsed) THEN parsed
     ELSE IF ~IsOk(config) THEN config
     ELSE Ok([parsed.val EXCEPT !.env_config = config.val])

(* The transport resolves the fetch.                                       *)
FetchReply ==
  /\ pc = "fetch"
  /\ \E reply \in FetchReplies :
       /\ trace' = Append(trace, Reply(reply))
       /\ IF ~IsOk(reply)
          THEN Abort(reply) /\ UNCHANGED <<ctx, body>>
          ELSE LET c == NextCtx(reply.val.headers, env)
               IN IF ~IsOk(c)
                  THEN Abort(c) /\ UNCHANGED <<ctx, body>>
                  ELSE /\ ctx' = c.val
                       /\ body' = reply.val.payload
                       /\ pc' = "aggregate"
                       /\ UNCHANGED outcome
  /\ UNCHANGED <<env, handler, client, event, overdue>>

(* The body is read in full (or the read fails), deserialized and passed   *)
(* to the handler.                                                         *)
AggregateDone ==
  /\ pc = "aggregate"
  /\ \E ok \in BOOLEAN :
       IF ~ok
       THEN /\ Abort(Fail("body"))
            /\ trace' = Append(trace, BodyRead(Fail("body")))
            /\ UNCHANGED <<body, event>>
       ELSE LET input == FromReader(body, handler.A)
            IN IF ~IsOk(input)
               THEN /\ Abort(input)
                    /\ trace' = Append(trace, BodyRead(Ok(body)))
                    /\ UNCHANGED <<body, event>>
               ELSE /\ event' = input.val
                    /\ body' = <<>>
                    /\ trace' = trace \o <<BodyRead(Ok(body)), Call(input.val)>>
                    /\ pc' = "handler"
                    /\ UNCHANGED outcome
  /\ UNCHANGED <<env, handler, client, ctx, overdue>>

(* A success report whose body is the serialized result serialized again  *)
(* as a JSON string.                                                       *)
CompletionRequestEncodedTwice(c, res) ==
  LET bytes == ToVec(res)
  IN IF ~IsOk(bytes) THEN bytes
     ELSE EventCompletionIntoReq([request_id |-> c.request_id,
                                  body |-> ToVec(JStr(bytes.val)).val])

(* A success path that reports a result it cannot serialize as an error.  *)
CompletionRequestReportingFailure(c, res) ==
  LET bytes == ToVec(res)
  IN IF ~IsOk(bytes)
     THEN EventErrorIntoReq(
            [request_id |-> c.request_id,
             diagnostic |-> [error_message |-> "key must be a string",
                             error_type |-> "serde_json::error::Error"]])
     ELSE EventCompletionIntoReq([request_id |-> c.request_id,
                                  body |-> bytes.val])

(* Ok(res): the success report carrying the serialized result.            *)
CompletionRequest(c, res) ==
  LET bytes == ToVec(res)
  IN IF ~IsOk(bytes) THEN bytes
     ELSE EventCompletionIntoReq([request_id |-> c.request_id,
                                  body |-> bytes.val])

(* An error report addressed to the first invocation the process served.  *)
ErrorRequestFirstId(c, err) ==
  EventErrorIntoReq([request_id |-> trace[2].res.val.headers[RequestIdHeader],
                     diagnostic |-> MkDiagnostic(err)])

(* Err(err): the error report carrying the Diagnostic of the error.       *)
ErrorRequest(c, err) ==
  EventErrorIntoReq([request_id |-> c.request_id,
                     diagnostic |-> MkDiagnostic(err)])

(* A match that lets the handler's error leave the loop.                  *)
ReportForOkOnly(c, result) ==
  IF result.tag = "Ok"
  THEN CompletionRequest(c, result.val)
  ELSE Fail("handler")

(* The match on the handler's result: the request reporting it.            *)
ReportFor(c, result) ==
  IF result.tag = "Ok"
  THEN CompletionRequest(c, result.val)
  ELSE ErrorRequest(c, result.err)

(* The handler's future completes; its result is reported.                 *)
HandlerReturn ==
  /\ pc = "handler"
  /\ \E result \in HandlerFnCall(handler, event) :
       LET req == ReportFor(ctx, result)
       IN IF ~IsOk(req)
          THEN /\ Abort(req)
               /\ trace' = Append(trace, Return(result))
          ELSE /\ trace' = trace \o <<Return(result), Send(req.val)>>
               /\ pc' = "report"
               /\ UNCHANGED outcome
  /\ event' = NoEvent
  /\ UNCHANGED <<env, handler, client, ctx, body, overdue>>

(* The transport resolves the report; the iteration ends.                  *)
ReportReply ==
  /\ pc = "report"
  /\ \E reply \in ReportReplies :
       /\ trace' = Append(trace, Reply(reply))
       /\ IF ~IsOk(reply)
          THEN Abort(reply) /\ UNCHANGED <<ctx, overdue>>
          ELSE /\ pc' = "loop"
               /\ ctx' = NoCtx
               /\ overdue' = FALSE
               /\ UNCHANGED outcome
  /\ UNCHANGED <<env, handler, client, body, event>>

(* The process environment is changed while the runtime runs.              *)
EnvChange ==
  /\ pc \notin {"start", "done"}
  /\ \E u \in EnvUpdates :
       /\ env[u[1]] # u[2]
       /\ env' = [env EXCEPT ![u[1]] = u[2]]
  /\ UNCHANGED <<pc, handler, client, ctx, body, event, trace, outcome, overdue>>

(* Time passes the deadline of the invocation whose handler call is        *)
(* pending; the executor never reads the clock or ctx.deadline.            *)
DeadlinePasses ==
  /\ pc = "handler"
  /\ ~overdue
  /\ overdue' = TRUE
  /\ UNCHANGED <<pc, env, handler, client, ctx, body, event, trace, outcome>>

Next ==
  \/ Startup
  \/ SendFetch
  \/ FetchReply
  \/ AggregateDone
  \/ HandlerReturn
  \/ ReportReply
  \/ EnvChange
  \/ DeadlinePasses

Spec == Init /\ [][Next]_vars

(***************************************************************************)
(* Reading the trace                                                       *)
(***************************************************************************)
IsSend(e) == e.ev = "send"
IsFetch(e) == e.ev = "send" /\ e.req.kind = "next"
IsReport(e) == e.ev = "send" /\ e.req.kind \in {"response", "error"}
IsCall(e) == e.ev = "call"
IsReturn(e) == e.ev = "return"

Sends == SelectSeq(trace, IsSend)

Count(P(_), n) == Cardinality({i \in 1..n : P(trace[i])})

(* The index of the fetch that opened the iteration event i belongs to.    *)
FetchOf(i) ==
  CHOOSE j \in 1..i :
    IsFetch(trace[j]) /\ \A k \in (j + 1)..i : ~IsFetch(trace[k])

HasFetch(i) == \E j \in 1..i : IsFetch(trace[j])

(* Event i is the transport's answer to a fetch.                           *)
IsFetchReply(i) ==
  i > 1 /\ trace[i].ev = "reply" /\ IsFetch(trace[i - 1])

(* The request id the event source gave to the iteration of event i.       *)
FetchedId(i) == trace[FetchOf(i) + 1].res.val.headers[RequestIdHeader]

(* The payload the event source gave to the iteration of event i.          *)
FetchedPayload(i) == trace[FetchOf(i) + 1].res.val.payload

(***************************************************************************)
(* Claims                                                                  *)
(***************************************************************************)

(* C1: the requests sent to the event source alternate strictly: the odd   *)
(* ones are fetches, the even ones are reports (success or error), so no   *)
(* two fetches are adjacent, no report lacks a preceding unreported fetch  *)
(* and no fetch is followed by two reports.                                *)
C1_StrictOrdering ==
  \A i \in 1..Len(Sends) :
    IF i % 2 = 1 THEN Sends[i].req.kind = "next"
    ELSE Sends[i].req.kind \in {"response", "error"}

(* Two complete fetch/report rounds have been sent.                        *)
C1_Witness ==
  /\ Len(Sends) = 4
  /\ Sends[2].req.kind = "error"
  /\ Sends[4].req.kind = "response"

(* C3: at most one invocation is fetched but unreported, at most one       *)
(* handler call is in progress, and at the moment a fetch is sent every    *)
(* earlier fetch has been reported and every earlier call has returned.    *)
C3_SingleInFlight ==
  /\ Count(IsFetch, Len(trace)) - Count(IsReport, Len(trace)) \in {0, 1}
  /\ Count(IsCall, Len(trace)) - Count(IsReturn, Len(trace)) \in {0, 1}
  /\ \A i \in 1..Len(trace) :
       IsFetch(trace[i]) =>
         /\ Count(IsFetch, i - 1) = Count(IsReport, i - 1)
         /\ Count(IsCall, i - 1) = Count(IsReturn, i - 1)

(* A handler call is pending in the second iteration.                      *)
C3_Witness ==
  /\ pc = "handler"
  /\ Count(IsFetch, Len(trace)) = 2
  /\ Count(IsReport, Len(trace)) = 1
  /\ Count(IsCall, Len(trace)) = 2

(* C4: every report is addressed with the request id of the fetch response *)
(* of its own iteration.                                                   *)
C4_ReportCarriesFetchedId ==
  \A i \in 1..Len(trace) :
    IsReport(trace[i]) =>
      /\ HasFetch(i)
      /\ IsFetchReply(FetchOf(i) + 1)
      /\ IsOk(trace[FetchOf(i) + 1].res)
      /\ RequestIdHeader \in DOMAIN trace[FetchOf(i) + 1].res.val.headers
      /\ trace[i].req.path =
           InvocationPath \o FetchedId(i)
             \o (IF trace[i].req.kind = "response"
                 THEN <<"/response">> ELSE <<"/error">>)

(* The second iteration reports under a request id other than the first    *)
(* iteration's.                                                            *)
C4_Witness ==
  /\ Len(Sends) = 4
  /\ Sends[4].req.kind = "error"
  /\ Sends[2].req.path # InvocationPath \o FetchedId(Len(trace)) \o <<"/error">>
  /\ Sends[2].req.kind = "error"

(* The error report of the handler error returned at event i can be built. *)
ErrorReportBuilds(i) ==
  IsOk(EventErrorIntoReq([request_id |-> FetchedId(i),
                          diagnostic |-> MkDiagnostic(trace[i].res.err)]))

(* What follows a handler error returned at event i whose report is built: *)
(* one error report, the transport's reply to it and, if that reply is a   *)
(* success, a fetch; the run stops there only on a failed reply.           *)
ErrorIsReported(i) ==
  /\ Len(trace) > i
  /\ IsReport(trace[i + 1])
  /\ trace[i + 1].req.kind = "error"
  /\ Len(trace) > i + 1 => trace[i + 2].ev = "reply"
  /\ Len(trace) > i + 2 => IsOk(trace[i + 2].res) /\ IsFetch(trace[i + 3])
  /\ (pc = "done" /\ Len(trace) <= i + 2) =>
       /\ Len(trace) = i + 2
       /\ outcome = Fail("transport")
       /\ ~IsOk(trace[i + 2].res)
  /\ outcome.tag \in {"Err", "panic"} => outcome # Fail("handler")

EchoValues ==
  {JNull, JBool(TRUE), JBool(FALSE), JStr(<<>>), JStr(<<"a">>), JStr(<<"b">>)}
    \cup {JNum(n) : n \in 0..10}

C6_DiagnosticOfError ==
  \A i \in 1..Len(trace) :
    (IsReport(trace[i]) /\ trace[i].req.kind = "error") =>
      /\ i > 1
      /\ IsReturn(trace[i - 1])
      /\ trace[i - 1].res.tag = "Err"
      /\ trace[i].req.body =
           DiagnosticJson([error_message |-> DebugFmt(trace[i - 1].res.err),
                           error_type |-> TypeNameOfVal(trace[i - 1].res.err)])

(* The String error "boom" has been reported: its debug rendering carries  *)
(* the quotes.                                                             *)
C6_Witness ==
  /\ Len(trace) = 6
  /\ trace[5].res = HErr(BoomString)
  /\ trace[6].req.kind = "error"
  /\ trace[6].req.body[4] = "\"boom\""
  /\ trace[6].req.body[8] = "alloc::string::String"

(* C7: a fetch response without the request-id header ends Executor::run   *)
(* with an error at once: no handler call and no request follows it.       *)
C7_MissingRequestId ==
  \A i \in 1..Len(trace) :
    (IsFetchReply(i) /\ IsOk(trace[i].res)
       /\ RequestIdHeader \notin DOMAIN trace[i].res.val.headers) =>
      /\ Len(trace) = i
      /\ pc = "done"
      /\ outcome = Fail("parse")

(* The second fetch was answered without a request id.                     *)
C7_Witness ==
  /\ Len(trace) = 9
  /\ IsFetchReply(9)
  /\ IsOk(trace[9].res)
  /\ RequestIdHeader \notin DOMAIN trace[9].res.val.headers
  /\ Count(IsCall, 9) = 1

(* C8: a transport failure on a fetch or on a report ends Executor::run    *)
(* with that error: nothing is sent or called after it, and after a failed *)
(* fetch the handler is not invoked.                                       *)
C8_TransportFailureFatal ==
  \A i \in 1..Len(trace) :
    (trace[i].ev = "reply" /\ ~IsOk(trace[i].res)) =>
      /\ Len(trace) = i
      /\ pc = "done"
      /\ outcome = Fail("transport")
      /\ IsFetchReply(i) => Count(IsCall, Len(trace)) = Count(IsFetch, i) - 1

(* The report of the first invocation met a transport failure.             *)
C8_Witness ==
  /\ Len(trace) = 7
  /\ IsReport(trace[6])
  /\ trace[7].ev = "reply"
  /\ ~IsOk(trace[7].res)

(* C9: when the payload of a fetched invocation has been read and is not   *)
(* JSON of the handler's input type, Executor::run ends with the           *)
(* deserialization error: no handler call, no report, no further fetch.    *)
C9_BadPayloadFatal ==
  \A i \in 1..Len(trace) :
    (trace[i].ev = "body" /\ IsOk(trace[i].res)
       /\ ~IsOk(FromReader(trace[i].res.val, handler.A))) =>
      /\ Len(trace) = i
      /\ pc = "done"
      /\ outcome = Fail("json")

(* The second invocation carried the malformed payload 07.                 *)
C9_Witness ==
  /\ Len(trace) = 10
  /\ trace[10] = BodyRead(Ok(<<"0", "7">>))
  /\ Count(IsCall, 10) = 1

(* C10 as stated: a configuration error ends the runtime only before the   *)
(* first fetch request is sent.                                            *)
C10_ConfigErrorOnlyAtStartup ==
  (pc = "done"
     /\ (outcome = Panic("Could not load config") \/ outcome = Fail("config")))
    => NumFetches = 0

C13_ContextPassedToHandler ==
  \A i \in 1..Len(trace) :
    IsCall(trace[i]) =>
      /\ "ctx" \in DOMAIN trace[i]
      /\ trace[i].ctx.request_id = FetchedId(i)

(* C14: the result of handler_fn(f).call(x) is a result of f(x) for the    *)
(* very x the executor passed, one result per call, and the call leaves    *)
(* the handler as it was.                                                  *)
C14_HandlerFnForwards ==
  [][(pc = "handler" /\ trace' # trace) =>
       /\ IsCall(trace[Len(trace)])
       /\ IsReturn(trace'[Len(trace) + 1])
       /\ trace'[Len(trace) + 1].res
            \in WrappedFn(handler, trace[Len(trace)].arg)
       /\ handler' = handler]_vars

(* The echo function over u64 was called with 10 and answered 10.          *)
C14_Witness ==
  /\ handler = [kind |-> "echo", A |-> "u64"]
  /\ Len(trace) >= 5
  /\ trace[4] = Call(JNum(10))
  /\ trace[5] = Return(HOk(JNum(10)))

(* C15: while a handler call is pending the executor sends nothing, also   *)
(* after the deadline of the invocation has passed: as long as the call    *)
(* stays pending the trace does not grow, and the only event that can      *)
(* follow the call is the handler's own return.                            *)
C15_NoTimeout ==
  [][pc = "handler" =>
       /\ pc' = "handler" => trace' = trace
       /\ trace' # trace =>
            /\ Len(trace') > Len(trace)
            /\ SubSeq(trace', 1, Len(trace)) = trace
            /\ IsReturn(trace'[Len(trace) + 1])]_vars

(* The handler call of the second invocation is pending past its deadline. *)
C15_Witness ==
  /\ pc = "handler"
  /\ overdue
  /\ ctx.deadline = <<"9">>
  /\ IsCall(trace[Len(trace)])
  /\ Count(IsFetch, Len(trace)) = 2

(* C16: when a fetch is answered, the configuration is read from the       *)
(* environment as it is at that moment, after the headers are parsed and   *)
(* before the payload is deserialized: a response without request id fails *)
(* as a parse error whatever the environment, an unreadable configuration  *)
(* fails before the payload is looked at, and otherwise the context holds  *)
(* the configuration of the current environment.                           *)
C16_FreshConfigPerIteration ==
  [][(pc = "fetch" /\ pc' # "fetch") =>
       LET r == trace'[Len(trace')].res
       IN IsOk(r) =>
            IF RequestIdHeader \notin DOMAIN r.val.headers
            THEN outcome' = Fail("parse")
            ELSE IF ~IsOk(ConfigFromEnv(env))
            THEN pc' = "done" /\ outcome' = Fail("config")
            ELSE /\ pc' = "aggregate"
                 /\ ctx'.env_config = ConfigFromEnv(env).val
                 /\ ctx'.request_id = r.val.headers[RequestIdHeader]
                 /\ body' = r.val.payload
                 /\ Len(trace') = Len(trace) + 1]_vars

(* The context of the second invocation holds the memory size set after    *)
(* startup.                                                                *)
C16_Witness ==
  /\ pc = "aggregate"
  /\ Count(IsFetch, Len(trace)) = 2
  /\ ctx.env_config.memory = 256
  /\ ctx.env_config # ConfigFromEnv(GoodEnv).val

(* C17: a handler call is always the fourth event of its iteration, after  *)
(* the fetch, a successful response that carries a request id (whose       *)
(* context and configuration refresh therefore succeeded) and the read of  *)
(* a payload that deserializes to the call's argument; a payload that has  *)
(* been read and deserializes is followed by the call at once; and no two  *)
(* calls belong to the same fetch.                                         *)
C17_CalledOncePerInvocation ==
  /\ \A i \in 1..Len(trace) :
       IsCall(trace[i]) =>
         /\ i >= 4
         /\ IsFetch(trace[i - 3])
         /\ IsFetchReply(i - 2)
         /\ IsOk(trace[i - 2].res)
         /\ RequestIdHeader \in DOMAIN trace[i - 2].res.val.headers
         /\ trace[i - 1] = BodyRead(Ok(trace[i - 2].res.val.payload))
         /\ FromReader(trace[i - 2].res.val.payload, handler.A)
              = Ok(trace[i].arg)
  /\ \A i \in 1..Len(trace) :
       (trace[i].ev = "body" /\ IsOk(trace[i].res)
          /\ IsOk(FromReader(trace[i].res.val, handler.A))) =>
         Len(trace) > i /\ IsCall(trace[i + 1])
  /\ \A i, j \in 1..Len(trace) :
       (i < j /\ IsCall(trace[i]) /\ IsCall(trace[j])) =>
         \E k \in (i + 1)..(j - 1) : IsFetch(trace[k])
  /\ Count(IsCall, Len(trace)) <= Count(IsFetch, Len(trace))

(* Both fetched invocations have been passed to the handler, once each.    *)
C17_Witness ==
  /\ pc = "report"
  /\ Count(IsFetch, Len(trace)) = 2
  /\ Count(IsCall, Len(trace)) = 2
  /\ Count(IsReturn, Len(trace)) = 2

(* C18: when the handler returns Ok(res) and res cannot be serialized, or  *)
(* the success-report request cannot be built, the return is the last      *)
(* event of the run: Executor::run has ended with that error and neither   *)
(* report was sent for the invocation.                                     *)
C18_UnreportedAfterOk ==
  \A i \in 1..Len(trace) :
    (IsReturn(trace[i]) /\ trace[i].res.tag = "Ok"
       /\ (~IsOk(ToVec(trace[i].res.val)) \/ ~UriValid(FetchedId(i)))) =>
      /\ Len(trace) = i
      /\ Count(IsReport, i) = Count(IsFetch, i) - 1
      /\ pc = "done"
      /\ outcome = IF ~IsOk(ToVec(trace[i].res.val))
                   THEN Fail("json") ELSE Fail("request")

(* The handler answered the second invocation with a map that has no JSON  *)
(* form.                                                                   *)
C18_Witness ==
  /\ Len(trace) = 12
  /\ trace[12] = Return(HOk(JBadMap))
  /\ UriValid(FetchedId(12))
  /\ outcome = Fail("json")

(* The transport has answered every request, and delivered every body,     *)
(* successfully.                                                           *)
TransportAnswersOk ==
  \A i \in 1..Len(trace) :
    trace[i].ev \in {"reply", "body"} => IsOk(trace[i].res)

(* Every fetch response carried a request id and a payload that is JSON of *)
(* the handler's input type.                                               *)
ResponsesWellFormed ==
  \A i \in 1..Len(trace) :
    (IsFetchReply(i) /\ IsOk(trace[i].res)) =>
      /\ RequestIdHeader \in DOMAIN trace[i].res.val.headers
      /\ IsOk(FromReader(trace[i].res.val.payload, handler.A))

ConfigReadable == IsOk(ConfigFromEnv(env))

(* Every handler result so far can be turned into its report request.      *)
ResultsReportable ==
  \A i \in 1..Len(trace) :
    IsReturn(trace[i]) =>
      /\ UriValid(FetchedId(i))
      /\ trace[i].res.tag = "Ok" => IsOk(ToVec(trace[i].res.val))

(* What C12 assumes of the transport, the event source and the            *)
(* environment.                                                            *)
Assumed == TransportAnswersOk /\ ResponsesWellFormed /\ ConfigReadable

(* The runtime in an environment that keeps to the assumptions of C12. The *)
(* single task makes every step whose awaited future has resolved: the     *)
(* transport answers, the body arrives and the handler completes.          *)
LiveInit == Init /\ Assumed

LiveNext ==
  \/ Startup
  \/ SendFetch
  \/ FetchReply /\ TransportAnswersOk' /\ ResponsesWellFormed'
  \/ AggregateDone /\ TransportAnswersOk'
  \/ HandlerReturn
  \/ ReportReply /\ TransportAnswersOk'
  \/ EnvChange /\ ConfigReadable'
  \/ DeadlinePasses

(* The steps of the task itself (at most one of them is enabled).          *)
TaskStep ==
  \/ Startup
  \/ SendFetch
  \/ FetchReply /\ TransportAnswersOk' /\ ResponsesWellFormed'
  \/ AggregateDone /\ TransportAnswersOk'
  \/ HandlerReturn
  \/ ReportReply /\ TransportAnswersOk'

LiveSpec ==
  /\ LiveInit
  /\ [][LiveNext]_vars
  /\ WF_vars(TaskStep)

====
